---- MODULE Spec2Model ----
(***************************************************************************)
(* A model of five backend pieces of grafana:                              *)
(*   pkg/services/preferences   GetPreferencesWithDefaults                 *)
(*   pkg/services/apikey        readQuotaConfig, ProvideService            *)
(*   pkg/services/accesscontrol the two permission handlers                *)
(*   pkg/cuectx                 PrefixWithGrafanaCUE                       *)
(*   pkg/kindsys                CUEFramework, ToKindMeta, ToSomeKindMeta,  *)
(*                              LoadAnyKindFS, LoadCoreKind,               *)
(*                              BindKindLineage, Some, IsRaw ...           *)
(* The process starts, runs package init of kindsys, and then serves one   *)
(* call.  The call's inputs, what it returned and the calls it made to its *)
(* collaborators are kept in the variable call.  A declaration a loader    *)
(* returned may then be put to use by calling its methods.                 *)
(***************************************************************************)
EXTENDS Integers, Sequences, FiniteSets, TLC

VARIABLES
    pc,                 \* "start", "crashed" (init panicked), "idle", "done",
                        \* "used" (a loaded declaration was put to use)
    fwEnv,              \* what loading the embedded framework CUE files does
    defaultFramework,   \* kindsys: var defaultFramework cue.Value
    call                \* the call that was served, with its result

vars == <<pc, fwEnv, defaultFramework, call>>

Nil == "nil"

NoCall == [op |-> "none"]

\* All sequences over S of length at most n.
SeqsUpTo(S, n) == UNION {[1..k -> S] : k \in 0..n}

(***************************************************************************)
(* pkg/services/preferences                                                *)
(***************************************************************************)

\* Longest list the store's List returns.
MaxPrefs == 3

Themes == {"", "dark", "light"}
Timezones == {"", "utc"}
WeekStarts == {"", "monday"}
DashboardIds == {0, 7}

\* The four fields of models.Preferences that GetPreferencesWithDefaults reads.
PreferenceValues ==
    [Theme : Themes, Timezone : Timezones, WeekStart : WeekStarts,
     HomeDashboardId : DashboardIds]

\* What preferenceStore.GetDefaults() may hand out (it is an interface method:
\* the values come from the configuration).
Defaults ==
    { [Theme |-> "dark", Timezone |-> "browser", WeekStart |-> "", HomeDashboardId |-> 0],
      [Theme |-> "light", Timezone |-> "utc", WeekStart |-> "monday", HomeDashboardId |-> 0] }

\* One turn of the loop body, preferences.go:41-52.
mergeOneBroken(res, p) ==
    [Theme           |-> IF p.Theme # "" THEN p.Theme ELSE res.Theme,
     Timezone        |-> IF p.Timezone # "" THEN p.Timezone ELSE res.Timezone,
     WeekStart       |-> IF p.WeekStart # "" THEN p.WeekStart ELSE res.WeekStart,
     HomeDashboardId |-> p.HomeDashboardId]

mergeOne(res, p) ==
    [Theme           |-> IF p.Theme # "" THEN p.Theme ELSE res.Theme,
     Timezone        |-> IF p.Timezone # "" THEN p.Timezone ELSE res.Timezone,
     WeekStart       |-> IF p.WeekStart # "" THEN p.WeekStart ELSE res.WeekStart,
     HomeDashboardId |-> IF p.HomeDashboardId # 0 THEN p.HomeDashboardId
                                                  ELSE res.HomeDashboardId]

\* The loop run from the last record to the first.
RECURSIVE mergeAllBackwards(_, _)
mergeAllBackwards(res, prefs) ==
    IF prefs = << >> THEN res
    ELSE mergeAllBackwards(mergeOne(res, prefs[Len(prefs)]), SubSeq(prefs, 1, Len(prefs) - 1))

\* for _, p := range prefs { ... }, applied to res from left to right.
RECURSIVE mergeAll(_, _)
mergeAll(res, prefs) ==
    IF prefs = << >> THEN res
    ELSE mergeAll(mergeOne(res, Head(prefs)), Tail(prefs))

\* ManagerImpl.GetPreferencesWithDefaults: list is what preferenceStore.List
\* returned ([prefs, err]), defaults what preferenceStore.GetDefaults returns.
GetPreferencesWithDefaults(list, defaults) ==
    IF list.err # Nil
    THEN [res |-> Nil, err |-> list.err]
    ELSE [res |-> mergeAll(defaults, list.prefs), err |-> list.err]

\* The preference rows of the querying user: one per team the user is in, one
\* for the organisation, one for the user; each <<row>>, or << >> where no row
\* was saved.
TeamIds == {1, 2}

\* The rows saved: timezone and week start are saved together here (the lists
\* of InvokeGetPreferencesWithDefaults vary all four fields independently).
StoredValues == {p \in PreferenceValues : (p.Timezone = "") <=> (p.WeekStart = "")}

PrefTables ==
    [teams : [TeamIds -> SeqsUpTo(StoredValues, 1)],
     org : SeqsUpTo(StoredValues, 1),
     user : SeqsUpTo(StoredValues, 1)]

RECURSIVE teamRows(_, _)
teamRows(table, ids) ==
    IF ids = {} THEN << >>
    ELSE LET t == CHOOSE x \in ids : \A y \in ids : x <= y
             rest == teamRows(table, ids \ {t})
         IN  table.teams[t] \o rest

\* preferenceStore.List of the SQL store: the rows that apply to the user, the
\* least specific first (team rows, then the organisation's, then the user's).
List(table, teams) ==
    [prefs |-> teamRows(table, teams) \o table.org \o table.user,
     err |-> Nil]

(***************************************************************************)
(* pkg/cuectx: the singletons                                              *)
(***************************************************************************)

\* var ctx = cuecontext.New(); a second context stands for any other one.
GrafanaCUEContext == "grafana-ctx"

Contexts == {GrafanaCUEContext, "other-ctx"}

\* var rt = thema.NewRuntime(ctx)
GrafanaThemaRuntime == "grafana-rt"

Runtimes == {GrafanaThemaRuntime, "other-rt"}

(***************************************************************************)
(* pkg/cuectx: PrefixWithGrafanaCUE                                        *)
(***************************************************************************)

\* Deepest file of the input file system, and longest prefix, in path
\* elements.
MaxDepth == 2
MaxPrefixLen == 1

Names == {"a", "b"}

NameRank(n) == IF n = "a" THEN 1 ELSE IF n = "b" THEN 2 ELSE 0

\* A path is the sequence of its elements: <<"a", "b">> is a/b.
PathsUpTo(n) == UNION {[1..k -> Names] : k \in 1..n}

IsProperPrefix(p, q) == Len(p) < Len(q) /\ SubSeq(q, 1, Len(p)) = p

\* The sets of file paths that can be the regular files of one file system: no
\* file lies below another file.
FileSets(paths) ==
    {F \in SUBSET paths : \A p \in F, q \in F : ~IsProperPrefix(p, q)}

\* The bytes of a file tell the file system and the path they come from.
FSOf(origin, files) == [p \in files |-> <<origin, p>>]

\* grafana.CueSchemaFS: the embedded files.
EmbeddedFSs == {FSOf("embedded", F) : F \in FileSets(PathsUpTo(2))}

\* The prefix: a relative path from the repository root, which may hold "."
\* elements.
Prefixes == SeqsUpTo(Names \cup {"."}, MaxPrefixLen)

\* filepath.Join(prefix, path), in forward slashes: the elements of both, the
\* "." elements dropped.
Join(prefix, path) == SelectSeq(prefix \o path, LAMBDA n : n # ".")

\* Lexical order of paths, the order in which fs.WalkDir reaches the files.
RECURSIVE PathLess(_, _)
PathLess(p, q) ==
    IF p = << >> THEN q # << >>
    ELSE IF q = << >> THEN FALSE
    ELSE IF Head(p) # Head(q) THEN NameRank(Head(p)) < NameRank(Head(q))
    ELSE PathLess(Tail(p), Tail(q))

NoError == [op |-> "none"]

\* Where reading the input fails: nowhere, at the root (the walk), or at one
\* file (fs.ReadFile).
Failures(inputfs) ==
    {NoError, [op |-> "walk", path |-> << >>]}
    \cup {[op |-> "read", path |-> p] : p \in DOMAIN inputfs}

\* The callback of fs.WalkDir over the files not yet reached: m is the
\* fstest.MapFS built so far.
RECURSIVE walkFiles(_, _, _, _, _)
walkFiles(todo, inputfs, prefix, fail, m) ==
    IF todo = {} THEN [m |-> m, err |-> NoError]
    ELSE LET p == CHOOSE x \in todo : \A y \in todo \ {x} : PathLess(x, y)
         IN  IF fail = [op |-> "read", path |-> p]
             THEN [m |-> m, err |-> fail]
             ELSE walkFiles(todo \ {p}, inputfs, prefix, fail,
                            (Join(prefix, p) :> inputfs[p]) @@ m)

\* fs.WalkDir(inputfs, ".", ...)
WalkDir(inputfs, prefix, fail) ==
    IF fail.op = "walk"
    THEN [m |-> [p \in {} |-> << >>], err |-> fail]
    ELSE walkFiles(DOMAIN inputfs, inputfs, prefix, fail, [p \in {} |-> << >>])

NilFS == [nil |-> TRUE]

\* merged_fs.NewMergedFS(a, b): a has priority over b.
NewMergedFS(a, b) == [nil |-> FALSE, A |-> a, B |-> b]

\* PrefixWithGrafanaCUE with the two file systems merged the other way round.
PrefixWithGrafanaCUEUnder(prefix, inputfs, fail, embedded) ==
    LET w == WalkDir(inputfs, prefix, fail)
    IN  IF w.err # NoError
        THEN [fs |-> NilFS, err |-> w.err]
        ELSE [fs |-> NewMergedFS(embedded, w.m), err |-> NoError]

\* PrefixWithGrafanaCUE(prefix, inputfs); fail says where reading inputfs
\* fails, embedded is grafana.CueSchemaFS.
PrefixWithGrafanaCUE(prefix, inputfs, fail, embedded) ==
    LET w == WalkDir(inputfs, prefix, fail)
    IN  IF w.err # NoError
        THEN [fs |-> NilFS, err |-> w.err]
        ELSE [fs |-> NewMergedFS(w.m, embedded), err |-> NoError]

\* Whether fsys has a directory at path q: some file lies below q.
IsDir(fsys, q) == \E p \in DOMAIN fsys : IsProperPrefix(q, p)

\* fs.ReadFile(merged, q) on a merged file system: a file of A is read from A;
\* a directory of A is a directory; a path below a file of A does not exist;
\* anything else is looked up in B.
ReadFile(merged, q) ==
    IF q \in DOMAIN merged.A THEN [ok |-> TRUE, data |-> merged.A[q]]
    ELSE IF IsDir(merged.A, q) THEN [ok |-> FALSE, data |-> << >>]
    ELSE IF \E p \in DOMAIN merged.A : IsProperPrefix(p, q) THEN [ok |-> FALSE, data |-> << >>]
    ELSE IF q \in DOMAIN merged.B THEN [ok |-> TRUE, data |-> merged.B[q]]
    ELSE [ok |-> FALSE, data |-> << >>]

(***************************************************************************)
(* pkg/kindsys                                                             *)
(***************************************************************************)

\* cue.Value{}: the zero value, which does not exist.
ZeroValue == [exists |-> FALSE, ctx |-> Nil, valid |-> {}]

\* What loading the embedded framework files can do; the files are part of the
\* binary, so every load of one process does the same.
FwEnvs == {"ok", "abs-error", "load-error", "invalid"}

\* doLoadFrameworkCUE: resolve the path, load the instance, build it in ctx,
\* validate it.
doLoadFrameworkCUE(ctx) ==
    IF fwEnv = "abs-error" THEN [v |-> ZeroValue, err |-> "ErrAbs"]
    ELSE IF fwEnv = "load-error" THEN [v |-> ZeroValue, err |-> "ErrLoad"]
    ELSE IF fwEnv = "invalid" THEN [v |-> ZeroValue, err |-> "ErrFrameworkInvalid"]
    ELSE [v |-> [exists |-> TRUE, ctx |-> ctx, valid |-> {}, framework |-> TRUE],
          err |-> Nil]

\* CUEFramework with the comparison against the singleton context left out.
CUEFrameworkNilOnly(ctx) ==
    IF ctx = Nil
    THEN [v |-> defaultFramework, loads |-> << >>]
    ELSE [v |-> doLoadFrameworkCUE(ctx).v, loads |-> <<ctx>>]

\* CUEFramework: v is the value returned, loads the contexts in which the call
\* ran doLoadFrameworkCUE.
CUEFramework(ctx) ==
    IF ctx = Nil \/ ctx = GrafanaCUEContext
    THEN [v |-> defaultFramework, loads |-> << >>]
    ELSE [v |-> doLoadFrameworkCUE(ctx).v, loads |-> <<ctx>>]

\* The kind categories (the types of KindMetas), in the order ToSomeKindMeta
\* tries them.
Categories == <<"RawMeta", "CoreStructuredMeta", "CustomStructuredMeta", "SlotImplMeta">>

CategorySet == {Categories[i] : i \in 1..Len(Categories)}

\* The framework definition a category is checked against, load.go:107-119.
KindDef(T) ==
    CASE T = "RawMeta" -> "Raw"
      [] T = "CoreStructuredMeta" -> "CoreStructured"
      [] T = "CustomStructuredMeta" -> "CustomStructured"
      [] T = "SlotImplMeta" -> "Slot"

KindDefs == {KindDef(T) : T \in CategorySet}

\* A cue.Value holding a kind declaration: whether it exists, the context it
\* was built in, and the framework definitions it unifies with and validates
\* against.
KindValues ==
    [exists : {TRUE}, ctx : Contexts, valid : SUBSET KindDefs]
    \cup [exists : {FALSE}, ctx : Contexts, valid : {{}}]

\* fw.LookupPath(cue.MakePath(cue.Def(name)))
LookupDef(fw, name) == [exists |-> fw.exists, def |-> name]

\* item := v.Unify(kdef); item.Validate(cue.Concrete(false), cue.All()) == nil
UnifyValidates(v, kdef) == kdef.exists /\ kdef.def \in v.valid

ErrValueNotExist == "ErrValueNotExist"
ErrValueNotAKind == "ErrValueNotAKind"

\* ewrap(item.Err(), ErrValueNotAKind): the validation error, wrapping the
\* sentinel.
ewrap(sentinel) == "wrapped-ErrValueNotAKind"

\* new(T), and the same after item.Decode(meta).
ZeroMeta(T) == [cat |-> T, decoded |-> FALSE]
DecodedMeta(T) == [cat |-> T, decoded |-> TRUE]

\* Whether item.Decode(meta) fails on a validated item: "only reachable if CUE
\* and Go framework types have diverged", which is a fault of the build and not
\* of a value; the build modelled has matching types.
DecodeFails(T) == FALSE

\* The nil SomeKindMeta.
NilMeta == [cat |-> Nil, decoded |-> FALSE]

\* ToKindMeta[T](v): loads are the framework loads the call made, panic the
\* panic it ended in, if any.
ToKindMeta(T, v) ==
    IF ~v.exists
    THEN [meta |-> ZeroMeta(T), err |-> ErrValueNotExist, loads |-> << >>, panic |-> Nil]
    ELSE LET fw == CUEFramework(v.ctx)
             kdef == LookupDef(fw.v, KindDef(T))
         IN  IF T \notin CategorySet
             THEN [meta |-> ZeroMeta(T), err |-> Nil, loads |-> fw.loads,
                   panic |-> "unreachable"]
             ELSE IF ~UnifyValidates(v, kdef)
             THEN [meta |-> ZeroMeta(T), err |-> ewrap(ErrValueNotAKind),
                   loads |-> fw.loads, panic |-> Nil]
             ELSE IF DecodeFails(T)
             THEN [meta |-> ZeroMeta(T), err |-> Nil, loads |-> fw.loads,
                   panic |-> "errors.Details"]
             ELSE [meta |-> DecodedMeta(T), err |-> Nil, loads |-> fw.loads, panic |-> Nil]

\* The attempts of ToSomeKindMeta from category number i on.
RECURSIVE trySomeKindMeta(_, _, _)
trySomeKindMeta(order, i, v) ==
    IF i > Len(order)
    THEN [meta |-> NilMeta, err |-> ErrValueNotAKind, loads |-> << >>, panic |-> Nil]
    ELSE LET r == ToKindMeta(order[i], v)
         IN  IF r.panic # Nil \/ r.err = Nil THEN r
             ELSE LET rest == trySomeKindMeta(order, i + 1, v)
                  IN  [rest EXCEPT !.loads = r.loads \o rest.loads]

\* ToSomeKindMeta trying CoreStructured before Raw.
ToSomeKindMetaCoreFirst(v) ==
    IF ~v.exists
    THEN [meta |-> NilMeta, err |-> ErrValueNotExist, loads |-> << >>, panic |-> Nil]
    ELSE trySomeKindMeta(<<"CoreStructuredMeta", "RawMeta", "CustomStructuredMeta",
                           "SlotImplMeta">>, 1, v)

\* ToSomeKindMeta(v).
ToSomeKindMeta(v) ==
    IF ~v.exists
    THEN [meta |-> NilMeta, err |-> ErrValueNotExist, loads |-> << >>, panic |-> Nil]
    ELSE trySomeKindMeta(Categories, 1, v)

\* What a kind's CUE files hold: whether the instance loads, whether the value
\* built from it is free of errors, and the framework definitions it validates
\* against.
KindSources ==
    [loads : {TRUE}, builds : {TRUE}, valid : SUBSET KindDefs]
    \cup [loads : {TRUE}, builds : {FALSE}, valid : {{}}]
    \cup [loads : {FALSE}, builds : {FALSE}, valid : {{}}]

\* ctx.BuildInstance(inst)
BuildInstance(ctx, inst) ==
    [exists |-> TRUE, ctx |-> ctx, valid |-> inst.valid, sound |-> inst.builds]

\* The nil *SomeDecl and *Decl[T].
NilDecl == [nil |-> TRUE]

\* A panic raised below a loader passes through it.
Panicked(m) == [decl |-> NilDecl, err |-> Nil, loads |-> m.loads, panic |-> m.panic]

\* LoadAnyKindFS returning the declaration although its metadata was refused.
LoadAnyKindFSKeepsDecl(kfs, ctx) ==
    IF ~kfs.loads
    THEN [decl |-> NilDecl, err |-> "ErrLoad", loads |-> << >>, panic |-> Nil]
    ELSE LET vk == BuildInstance(ctx, kfs)
         IN  IF ~vk.sound
             THEN [decl |-> NilDecl, err |-> "ErrInvalidCUE", loads |-> << >>, panic |-> Nil]
             ELSE LET m == ToSomeKindMeta(vk)
                  IN  [decl |-> [nil |-> FALSE, V |-> vk, Meta |-> m.meta],
                       err |-> m.err, loads |-> m.loads, panic |-> Nil]

\* LoadAnyKindFS(kfs, path, ctx); kfs stands for what kfs holds at path.
LoadAnyKindFS(kfs, ctx) ==
    IF ~kfs.loads
    THEN [decl |-> NilDecl, err |-> "ErrLoad", loads |-> << >>, panic |-> Nil]
    ELSE LET vk == BuildInstance(ctx, kfs)
         IN  IF ~vk.sound
             THEN [decl |-> NilDecl, err |-> "ErrInvalidCUE", loads |-> << >>, panic |-> Nil]
             ELSE LET m == ToSomeKindMeta(vk)
                  IN  IF m.panic # Nil THEN Panicked(m)
                      ELSE IF m.err # Nil
                      THEN [decl |-> NilDecl, err |-> m.err, loads |-> m.loads, panic |-> Nil]
                      ELSE [decl |-> [nil |-> FALSE, V |-> vk, Meta |-> m.meta],
                            err |-> Nil, loads |-> m.loads, panic |-> Nil]

\* cuectx.BuildGrafanaInstance(declpath, "kind", ctx, overlay): load the
\* instance at declpath, build it (in the singleton context when ctx is nil),
\* and refuse a value that has errors.
BuildGrafanaInstance(decl, ctx) ==
    IF ~decl.loads THEN [v |-> ZeroValue, err |-> "ErrLoad"]
    ELSE IF ~decl.builds THEN [v |-> ZeroValue, err |-> "ErrInvalidCUE"]
    ELSE [v |-> BuildInstance(IF ctx = Nil THEN GrafanaCUEContext ELSE ctx, decl),
          err |-> Nil]

\* The categories LoadCoreKind is instantiated with: RawMeta | CoreStructuredMeta.
CoreCategories == {"RawMeta", "CoreStructuredMeta"}

\* LoadCoreKind[T](declpath, ctx, overlay); declpath stands for what the
\* embedded files, under the overlay, hold at declpath.
LoadCoreKind(T, declpath, ctx) ==
    LET b == BuildGrafanaInstance(declpath, ctx)
    IN  IF b.err # Nil
        THEN [decl |-> NilDecl, err |-> b.err, loads |-> << >>, panic |-> Nil]
        ELSE LET m == ToKindMeta(T, b.v)
             IN  IF m.panic # Nil THEN Panicked(m)
                 ELSE IF m.err # Nil
                 THEN [decl |-> NilDecl, err |-> m.err, loads |-> m.loads, panic |-> Nil]
                 ELSE [decl |-> [nil |-> FALSE, V |-> b.v, Meta |-> m.meta],
                       err |-> Nil, loads |-> m.loads, panic |-> Nil]

\* decl.V.LookupPath(cue.MakePath(cue.Str("lineage")))
LookupLineage(v) == [path |-> "lineage", of |-> v]

\* thema.BindLineage(val, rt, opts...): the binder of the Thema library, which
\* answers with a lineage or with an error.
BindOutcomes == {"lineage", "error"}

BindLineage(val, rt, outcome) ==
    IF outcome = "lineage"
    THEN [lin |-> [nil |-> FALSE, val |-> val, rt |-> rt], err |-> Nil]
    ELSE [lin |-> [nil |-> TRUE], err |-> "ErrBindLineage"]

\* The declarations BindKindLineage may be called on: any Meta, the nil
\* interface included, since SomeDecl is an exported struct.
SomeDecls ==
    [nil : {FALSE}, V : [exists : {TRUE}, ctx : Contexts, valid : {{}, {"Raw"}, {"Slot"}}],
     Meta : {DecodedMeta(T) : T \in CategorySet} \cup {NilMeta}]

\* BindKindLineage binding the lineage whatever the category.
BindKindLineageAlways(decl, rt, outcome) ==
    LET r == IF rt = Nil THEN GrafanaThemaRuntime ELSE rt
        b == BindLineage(LookupLineage(decl.V), r, outcome)
    IN  [lin |-> b.lin, err |-> b.err, panic |-> Nil,
         binds |-> <<[val |-> LookupLineage(decl.V), rt |-> r]>>]

\* decl.BindKindLineage(rt, opts...); outcome is what the binder answers if it
\* is called.  binds lists the calls made to thema.BindLineage.
BindKindLineage(decl, rt, outcome) ==
    LET r == IF rt = Nil THEN GrafanaThemaRuntime ELSE rt
    IN  IF decl.Meta.cat = "RawMeta"
        THEN [lin |-> [nil |-> TRUE], err |-> Nil, panic |-> Nil, binds |-> << >>]
        ELSE IF decl.Meta.cat \in {"CoreStructuredMeta", "CustomStructuredMeta", "SlotImplMeta"}
        THEN LET b == BindLineage(LookupLineage(decl.V), r, outcome)
             IN  [lin |-> b.lin, err |-> b.err, panic |-> Nil,
                  binds |-> <<[val |-> LookupLineage(decl.V), rt |-> r]>>]
        ELSE [lin |-> [nil |-> TRUE], err |-> Nil, panic |-> "unreachable", binds |-> << >>]

\* decl.IsRaw(), decl.IsCoreStructured(), decl.IsCustomStructured() and
\* decl.IsSlotImpl(): whether Meta holds a value of that type.
IsRaw(decl) == decl.Meta.cat = "RawMeta"
IsCoreStructured(decl) == decl.Meta.cat = "CoreStructuredMeta"
IsCustomStructured(decl) == decl.Meta.cat = "CustomStructuredMeta"
IsSlotImpl(decl) == decl.Meta.cat = "SlotImplMeta"

\* Some leaving Meta at the nil interface.
SomeWithoutMeta(decl) == [nil |-> FALSE, V |-> decl.V, Meta |-> NilMeta]

\* decl.Some(): the SomeDecl of the same V, Meta being the T of the Decl[T]
\* put in the SomeKindMeta interface.
Some(decl) ==
    [nil |-> FALSE, V |-> decl.V,
     Meta |-> [cat |-> decl.Meta.cat, decoded |-> decl.Meta.decoded]]

\* What the methods of a *SomeDecl answer: the four predicates, and
\* BindKindLineage(rt, opts...) when the binder answers outcome.
Methods(decl, rt, outcome) ==
    [IsRaw |-> IsRaw(decl), IsCoreStructured |-> IsCoreStructured(decl),
     IsCustomStructured |-> IsCustomStructured(decl), IsSlotImpl |-> IsSlotImpl(decl),
     bind |-> BindKindLineage(decl, rt, outcome)]

(***************************************************************************)
(* pkg/services/apikey/apikeyimpl                                          *)
(***************************************************************************)

\* apikey.QuotaTargetSrv, apikey.QuotaTarget, quota.GlobalScope, quota.OrgScope
QuotaTargetSrv == "api_key"
QuotaTarget == "api_key"
GlobalScope == "global"
OrgScope == "org"

\* quota.NewTag(srv, target, scope): the tag of the three parts; the parts
\* used here are fixed and well formed.
NewTag(srv, target, scope) == [tag |-> <<srv, target, scope>>, err |-> Nil]

\* The defaults passed to MustInt64.
GlobalDefault == -1
OrgDefault == 10

\* The text of a key of the [quota] section; a key that is not there reads as
\* the empty text.
QuotaTexts == {"", "abc", "-1", "0", "5", "10"}

\* Key.Int64(): the number the text stands for, if it stands for one.
ParseInt64(text) ==
    CASE text = "-1" -> [ok |-> TRUE, n |-> -1]
      [] text = "0" -> [ok |-> TRUE, n |-> 0]
      [] text = "5" -> [ok |-> TRUE, n |-> 5]
      [] text = "10" -> [ok |-> TRUE, n |-> 10]
      [] OTHER -> [ok |-> FALSE, n |-> 0]

\* Key.MustInt64(default)
MustInt64(text, default) ==
    IF ParseInt64(text).ok THEN ParseInt64(text).n ELSE default

\* cfg.Raw: nil, or an ini file with or without a [quota] section.
RawConfigs ==
    {[nil |-> TRUE]}
    \cup {[nil |-> FALSE, hasQuota |-> FALSE, global_api_key |-> "", org_api_key |-> ""]}
    \cup [nil : {FALSE}, hasQuota : {TRUE}, global_api_key : QuotaTexts,
          org_api_key : QuotaTexts]

\* &quota.Map{} and Map.Set
EmptyMap == [t \in {} |-> 0]
MapSet(m, tag, limit) == (tag :> limit) @@ m

\* readQuotaConfig with the two defaults exchanged.
readQuotaConfigSwapped(raw) ==
    IF raw.nil \/ ~raw.hasQuota
    THEN [limits |-> EmptyMap, err |-> Nil]
    ELSE LET g == NewTag(QuotaTargetSrv, QuotaTarget, GlobalScope)
             o == NewTag(QuotaTargetSrv, QuotaTarget, OrgScope)
         IN  [limits |-> MapSet(MapSet(EmptyMap, g.tag,
                                       MustInt64(raw.global_api_key, OrgDefault)),
                                o.tag, MustInt64(raw.org_api_key, GlobalDefault)),
              err |-> Nil]

\* readQuotaConfig(cfg); raw is cfg.Raw.
readQuotaConfig(raw) ==
    IF raw.nil \/ ~raw.hasQuota
    THEN [limits |-> EmptyMap, err |-> Nil]
    ELSE LET g == NewTag(QuotaTargetSrv, QuotaTarget, GlobalScope)
             o == NewTag(QuotaTargetSrv, QuotaTarget, OrgScope)
         IN  IF g.err # Nil THEN [limits |-> EmptyMap, err |-> g.err]
             ELSE IF o.err # Nil THEN [limits |-> EmptyMap, err |-> o.err]
             ELSE [limits |-> MapSet(MapSet(EmptyMap, g.tag,
                                            MustInt64(raw.global_api_key, GlobalDefault)),
                                     o.tag, MustInt64(raw.org_api_key, OrgDefault)),
                   err |-> Nil]

\* What bus.Publish answers: nil, or the error of a listener.
BusAnswers == {Nil, "ErrPublish"}

\* s.Usage, the method value handed out as the reporter: it counts in the
\* store s holds.
Usage(s) == [method |-> "Usage", counts |-> s.store]

\* &events.NewQuotaReporter{TargetSrv, DefaultLimits, Reporter}
NewQuotaReporter(srv, limits, reporter) ==
    [event |-> "NewQuotaReporter", TargetSrv |-> srv, DefaultLimits |-> limits,
     Reporter |-> reporter]

\* ProvideService returning nil whatever the bus answered.
ProvideServiceIgnoresBus(newDBLibrary, raw, answer) ==
    LET s0 == [store |-> IF newDBLibrary THEN "sqlxStore" ELSE Nil]
        s == [s0 EXCEPT !.store = "sqlStore"]
        read == readQuotaConfig(raw)
    IN  IF read.err # Nil
        THEN [s |-> s, err |-> read.err, steps |-> <<"readQuotaConfig">>,
              published |-> << >>]
        ELSE [s |-> s, err |-> Nil, steps |-> <<"readQuotaConfig", "Publish">>,
              published |-> <<NewQuotaReporter(QuotaTargetSrv, read.limits, Usage(s))>>]

\* ProvideService(db, cfg, bus, _); newDBLibrary is the feature toggle of cfg,
\* raw is cfg.Raw and answer is what the bus answers to Publish.  steps lists
\* the calls made, published the events handed to bus.Publish.
ProvideService(newDBLibrary, raw, answer) ==
    LET s0 == [store |-> IF newDBLibrary THEN "sqlxStore" ELSE Nil]
        s == [s0 EXCEPT !.store = "sqlStore"]
        read == readQuotaConfig(raw)
    IN  IF read.err # Nil
        THEN [s |-> s, err |-> read.err, steps |-> <<"readQuotaConfig">>,
              published |-> << >>]
        ELSE IF answer # Nil
        THEN [s |-> s, err |-> answer, steps |-> <<"readQuotaConfig", "Publish">>,
              published |-> <<NewQuotaReporter(QuotaTargetSrv, read.limits, Usage(s))>>]
        ELSE [s |-> s, err |-> Nil, steps |-> <<"readQuotaConfig", "Publish">>,
              published |-> <<NewQuotaReporter(QuotaTargetSrv, read.limits, Usage(s))>>]

(***************************************************************************)
(* pkg/services/accesscontrol/api                                          *)
(***************************************************************************)

StatusOK == 200
StatusBadRequest == 400
StatusInternalServerError == 500

Actions == {"users:read", "teams:read"}

\* What Service.GetUserPermissions and Service.GetSimplifiedUsersPermissions
\* answer: the permissions and a nil error, or nothing and an error.
ServiceAnswers ==
    [permissions : SUBSET Actions, err : {Nil}]
    \cup {[permissions |-> {}, err |-> "ErrService"]}

\* ac.BuildPermissionsMap(permissions)
BuildPermissionsMap(permissions) == [a \in permissions |-> TRUE]

\* response.JSON(status, body) and response.Error(status, message, err)
JSON(status, body) == [status |-> status, body |-> body]
Error(status, message, err) == [status |-> status, body |-> [message |-> message, error |-> err]]

\* AccessControlAPI.getUserPermissions: resp is the response returned, calls
\* the calls made to the service, dropped the responses built and not
\* returned.
getUserPermissions(reloadCache, answer) ==
    [resp |-> JSON(StatusOK, BuildPermissionsMap(answer.permissions)),
     calls |-> <<[method |-> "GetUserPermissions", ReloadCache |-> reloadCache]>>,
     dropped |-> IF answer.err # Nil
                 THEN <<JSON(StatusInternalServerError, answer.err)>>
                 ELSE << >>]

ActionPrefixes == {"", "teams:", "users:"}

\* getSimpliedUsersPermissions asking the service before it looks at the
\* action prefix.
getSimpliedUsersPermissionsLate(actionPrefix, answer) ==
    LET calls == <<[method |-> "GetSimplifiedUsersPermissions", actionPrefix |-> actionPrefix]>>
    IN  IF actionPrefix = ""
        THEN [resp |-> JSON(StatusBadRequest, "missing action prefix"), calls |-> calls]
        ELSE IF answer.err # Nil
        THEN [resp |-> Error(StatusInternalServerError,
                             "could not get org user permissions", answer.err),
              calls |-> calls]
        ELSE [resp |-> JSON(StatusOK, answer.permissions), calls |-> calls]

\* AccessControlAPI.getSimpliedUsersPermissions
getSimpliedUsersPermissions(actionPrefix, answer) ==
    IF actionPrefix = ""
    THEN [resp |-> JSON(StatusBadRequest, "missing action prefix"), calls |-> << >>]
    ELSE LET calls == <<[method |-> "GetSimplifiedUsersPermissions",
                         actionPrefix |-> actionPrefix]>>
         IN  IF answer.err # Nil
             THEN [resp |-> Error(StatusInternalServerError,
                                  "could not get org user permissions", answer.err),
                   calls |-> calls]
             ELSE [resp |-> JSON(StatusOK, answer.permissions), calls |-> calls]

Init ==
    /\ pc = "start"
    /\ fwEnv \in FwEnvs
    /\ defaultFramework = ZeroValue
    /\ call = NoCall

\* func init() of package kindsys: load the framework in the singleton
\* context, panic when that fails.
PackageInit ==
    /\ pc = "start"
    /\ LET r == doLoadFrameworkCUE(GrafanaCUEContext)
       IN  IF r.err # Nil
           THEN pc' = "crashed" /\ UNCHANGED defaultFramework
           ELSE pc' = "idle" /\ defaultFramework' = r.v
    /\ UNCHANGED <<fwEnv, call>>

InvokeCUEFramework ==
    /\ pc = "idle"
    /\ \E ctx \in Contexts \cup {Nil} :
          call' = [op |-> "CUEFramework", ctx |-> ctx, ret |-> CUEFramework(ctx)]
    /\ pc' = "done"
    /\ UNCHANGED <<fwEnv, defaultFramework>>

InvokeToSomeKindMeta ==
    /\ pc = "idle"
    /\ \E v \in KindValues :
          call' = [op |-> "ToSomeKindMeta", v |-> v, ret |-> ToSomeKindMeta(v)]
    /\ pc' = "done"
    /\ UNCHANGED <<fwEnv, defaultFramework>>

\* ctx is a context: LoadAnyKindFS calls ctx.BuildInstance with no nil check.
InvokeLoadAnyKindFS ==
    /\ pc = "idle"
    /\ \E kfs \in KindSources, ctx \in Contexts :
          call' = [op |-> "LoadAnyKindFS", src |-> kfs, ctx |-> ctx,
                   ret |-> LoadAnyKindFS(kfs, ctx)]
    /\ pc' = "done"
    /\ UNCHANGED <<fwEnv, defaultFramework>>

InvokeLoadCoreKind ==
    /\ pc = "idle"
    /\ \E T \in CoreCategories, declpath \in KindSources, ctx \in Contexts \cup {Nil} :
          call' = [op |-> "LoadCoreKind", T |-> T, src |-> declpath, ctx |-> ctx,
                   ret |-> LoadCoreKind(T, declpath, ctx)]
    /\ pc' = "done"
    /\ UNCHANGED <<fwEnv, defaultFramework>>

InvokeBindKindLineage ==
    /\ pc = "idle"
    /\ \E decl \in SomeDecls, rt \in Runtimes \cup {Nil}, outcome \in BindOutcomes :
          call' = [op |-> "BindKindLineage", decl |-> decl, rt |-> rt,
                   outcome |-> outcome, ret |-> BindKindLineage(decl, rt, outcome)]
    /\ pc' = "done"
    /\ UNCHANGED <<fwEnv, defaultFramework>>

\* The methods called on the declaration LoadAnyKindFS has returned.
InvokeSomeDeclMethods ==
    /\ pc = "done" /\ call.op = "LoadAnyKindFS" /\ call.ret.decl # NilDecl
    /\ \E rt \in Runtimes \cup {Nil}, outcome \in BindOutcomes :
          call' = [op |-> "SomeDecl", load |-> call, some |-> call.ret.decl,
                   rt |-> rt, outcome |-> outcome,
                   ret |-> Methods(call.ret.decl, rt, outcome)]
    /\ pc' = "used"
    /\ UNCHANGED <<fwEnv, defaultFramework>>

\* Some called on the declaration LoadCoreKind has returned, and the methods
\* called on what Some returned.
InvokeSome ==
    /\ pc = "done" /\ call.op = "LoadCoreKind" /\ call.ret.decl # NilDecl
    /\ \E rt \in Runtimes \cup {Nil}, outcome \in BindOutcomes :
          call' = [op |-> "SomeDecl", load |-> call, some |-> Some(call.ret.decl),
                   rt |-> rt, outcome |-> outcome,
                   ret |-> Methods(Some(call.ret.decl), rt, outcome)]
    /\ pc' = "used"
    /\ UNCHANGED <<fwEnv, defaultFramework>>

InvokeReadQuotaConfig ==
    /\ pc = "idle"
    /\ \E raw \in RawConfigs :
          call' = [op |-> "readQuotaConfig", raw |-> raw, ret |-> readQuotaConfig(raw)]
    /\ pc' = "done"
    /\ UNCHANGED <<fwEnv, defaultFramework>>

InvokeProvideService ==
    /\ pc = "idle"
    /\ \E newDBLibrary \in BOOLEAN, raw \in RawConfigs, answer \in BusAnswers :
          call' = [op |-> "ProvideService", newDBLibrary |-> newDBLibrary, raw |-> raw,
                   answer |-> answer, ret |-> ProvideService(newDBLibrary, raw, answer)]
    /\ pc' = "done"
    /\ UNCHANGED <<fwEnv, defaultFramework>>

InvokeGetUserPermissions ==
    /\ pc = "idle"
    /\ \E reloadCache \in BOOLEAN, answer \in ServiceAnswers :
          call' = [op |-> "getUserPermissions", reloadCache |-> reloadCache,
                   answer |-> answer, ret |-> getUserPermissions(reloadCache, answer)]
    /\ pc' = "done"
    /\ UNCHANGED <<fwEnv, defaultFramework>>

InvokeGetSimpliedUsersPermissions ==
    /\ pc = "idle"
    /\ \E actionPrefix \in ActionPrefixes, answer \in ServiceAnswers :
          call' = [op |-> "getSimpliedUsersPermissions", actionPrefix |-> actionPrefix,
                   answer |-> answer,
                   ret |-> getSimpliedUsersPermissions(actionPrefix, answer)]
    /\ pc' = "done"
    /\ UNCHANGED <<fwEnv, defaultFramework>>

InvokePrefixWithGrafanaCUE ==
    /\ pc = "idle"
    /\ \E prefix \in Prefixes, embedded \in EmbeddedFSs,
          files \in FileSets(PathsUpTo(MaxDepth)) :
       \E fail \in Failures(FSOf("input", files)) :
          call' = [op |-> "PrefixWithGrafanaCUE", prefix |-> prefix,
                   inputfs |-> FSOf("input", files), fail |-> fail,
                   embedded |-> embedded,
                   ret |-> PrefixWithGrafanaCUE(prefix, FSOf("input", files), fail,
                                                embedded)]
    /\ pc' = "done"
    /\ UNCHANGED <<fwEnv, defaultFramework>>

InvokeGetPreferencesWithDefaults ==
    /\ pc = "idle"
    /\ \E d \in Defaults :
       \E list \in {[prefs |-> s, err |-> Nil] : s \in SeqsUpTo(PreferenceValues, MaxPrefs)}
                   \cup {[prefs |-> << >>, err |-> "ErrList"]} :
          call' = [op |-> "GetPreferencesWithDefaults", store |-> "any",
                   list |-> list, defaults |-> d,
                   ret |-> GetPreferencesWithDefaults(list, d)]
    /\ pc' = "done"
    /\ UNCHANGED <<fwEnv, defaultFramework>>

InvokeGetPreferencesWithDefaultsStored ==
    /\ pc = "idle"
    /\ \E d \in Defaults, table \in PrefTables :
          call' = [op |-> "GetPreferencesWithDefaults", store |-> "sql",
                   table |-> table, list |-> List(table, TeamIds), defaults |-> d,
                   ret |-> GetPreferencesWithDefaults(List(table, TeamIds), d)]
    /\ pc' = "done"
    /\ UNCHANGED <<fwEnv, defaultFramework>>

Next ==
    \/ PackageInit
    \/ InvokeCUEFramework
    \/ InvokeToSomeKindMeta
    \/ InvokeLoadAnyKindFS
    \/ InvokeLoadCoreKind
    \/ InvokeBindKindLineage
    \/ InvokeSomeDeclMethods
    \/ InvokeSome
    \/ InvokePrefixWithGrafanaCUE
    \/ InvokeReadQuotaConfig
    \/ InvokeProvideService
    \/ InvokeGetUserPermissions
    \/ InvokeGetSimpliedUsersPermissions
    \/ InvokeGetPreferencesWithDefaults
    \/ InvokeGetPreferencesWithDefaultsStored

Spec == Init /\ [][Next]_vars

(***************************************************************************)
(* Claims                                                                  *)
(***************************************************************************)

PrefFields == {"Theme", "Timezone", "WeekStart", "HomeDashboardId"}

EmptyValue(f) == IF f = "HomeDashboardId" THEN 0 ELSE ""

IsSet(p, f) == p[f] # EmptyValue(f)

\* Whether the saved row (<<row>> or << >>) sets field f.
RowSets(r, f) == r # << >> /\ IsSet(r[1], f)

Max(S) == CHOOSE x \in S : \A y \in S : y <= x

PrefsServed == pc = "done" /\ call.op = "GetPreferencesWithDefaults"

\* C1: when List succeeds, every field of the result is the value of the last
\* listed record that has the field non-empty, and the value of GetDefaults
\* when no listed record has it non-empty; the error returned is nil.
C1_LastNonEmptyWins ==
    (PrefsServed /\ call.list.err = Nil) =>
        /\ call.ret.err = Nil
        /\ \A f \in PrefFields :
              LET set == {i \in 1..Len(call.list.prefs) : IsSet(call.list.prefs[i], f)}
              IN  call.ret.res[f] = IF set = {} THEN call.defaults[f]
                                    ELSE call.list.prefs[Max(set)][f]

\* Three records: the theme is set by the first two and left empty by the
\* last, the home dashboard is set by none.
C1_Witness ==
    /\ PrefsServed /\ call.list.err = Nil /\ Len(call.list.prefs) = 3
    /\ call.list.prefs[1].Theme = "dark"
    /\ call.list.prefs[2].Theme = "light"
    /\ call.list.prefs[3].Theme = ""
    /\ \A i \in 1..3 : call.list.prefs[i].HomeDashboardId = 0
    /\ call.ret.res.Theme = "light"
    /\ call.ret.res.HomeDashboardId = call.defaults.HomeDashboardId

C5_FrameworkSingleton ==
    (pc = "done" /\ call.op = "CUEFramework") =>
        IF call.ctx \in {Nil, GrafanaCUEContext}
        THEN /\ call.ret.v = defaultFramework
             /\ call.ret.loads = << >>
             /\ defaultFramework.exists /\ defaultFramework.ctx = GrafanaCUEContext
        ELSE /\ call.ret.loads = <<call.ctx>>
             /\ call.ret.v.exists /\ call.ret.v.ctx = call.ctx

\* A call with the singleton context itself.
C5_Witness ==
    /\ pc = "done" /\ call.op = "CUEFramework" /\ call.ctx = GrafanaCUEContext
    /\ call.ret.v = defaultFramework /\ call.ret.loads = << >>

\* The first category, in the order Raw, CoreStructured, CustomStructured,
\* SlotImpl, whose framework definition v validates against; 0 when none.
FirstValid(v) ==
    LET ok == {i \in 1..Len(Categories) : KindDef(Categories[i]) \in v.valid}
    IN  IF ok = {} THEN 0 ELSE CHOOSE i \in ok : \A j \in ok : i <= j

\* C9: a value that does not exist gives ErrValueNotExist; one that exists
\* gives the decoded metadata of the first category it validates against, and
\* ErrValueNotAKind exactly when it validates against none.
C9_FirstMatch ==
    (pc = "done" /\ call.op = "ToSomeKindMeta") =>
        /\ call.ret.panic = Nil
        /\ IF ~call.v.exists
           THEN call.ret.err = ErrValueNotExist /\ call.ret.meta = NilMeta
           ELSE
             /\ (call.ret.err = ErrValueNotAKind) <=> (FirstValid(call.v) = 0)
             /\ FirstValid(call.v) = 0 => call.ret.meta = NilMeta
             /\ FirstValid(call.v) # 0 =>
                    /\ call.ret.err = Nil
                    /\ call.ret.meta = DecodedMeta(Categories[FirstValid(call.v)])

\* A value valid both as a core structured and as a slot kind is reported as
\* core structured.
C9_Witness ==
    /\ pc = "done" /\ call.op = "ToSomeKindMeta"
    /\ call.v.exists /\ call.v.valid = {"CoreStructured", "Slot"}
    /\ call.ret.err = Nil /\ call.ret.meta.cat = "CoreStructuredMeta"

\* The categories the call checks the declaration against: all four for
\* LoadAnyKindFS, T for LoadCoreKind.
CheckedCategories ==
    IF call.op = "LoadCoreKind" THEN {call.T} ELSE CategorySet

LoadServed == pc = "done" /\ call.op \in {"LoadAnyKindFS", "LoadCoreKind"}

\* C3: LoadAnyKindFS and LoadCoreKind return a declaration, with a nil error,
\* only when the instance loaded, the built value had no errors and the value
\* validated against the framework definition of the category of the metadata
\* returned; the declaration then holds the value built and the decoded
\* metadata.  In every other case they return the nil declaration and an error.
C3_ValidatedBeforeTrusted ==
    LoadServed =>
        /\ call.ret.panic = Nil
        /\ IF /\ call.src.loads /\ call.src.builds
              /\ \E T \in CheckedCategories : KindDef(T) \in call.src.valid
           THEN
             /\ call.ret.err = Nil
             /\ call.ret.decl # NilDecl
             /\ call.ret.decl.Meta.cat \in CheckedCategories
             /\ KindDef(call.ret.decl.Meta.cat) \in call.src.valid
             /\ call.ret.decl.Meta.decoded
             /\ call.ret.decl.V.valid = call.src.valid
             /\ call.ret.decl.V.ctx = IF call.ctx = Nil THEN GrafanaCUEContext ELSE call.ctx
           ELSE
             /\ call.ret.decl = NilDecl
             /\ call.ret.err # Nil

\* LoadAnyKindFS, in another context than the singleton, on files that hold a
\* custom structured kind.
C3_Witness ==
    /\ pc = "done" /\ call.op = "LoadAnyKindFS" /\ call.ctx # GrafanaCUEContext
    /\ call.src.valid = {"CustomStructured"}
    /\ call.ret.err = Nil /\ call.ret.decl # NilDecl
    /\ call.ret.decl.Meta = DecodedMeta("CustomStructuredMeta")

BindServed == pc = "done" /\ call.op = "BindKindLineage"

\* C4: for a raw kind BindKindLineage returns (nil, nil) and the binder is not
\* called; for a core structured, custom structured or slot implementation
\* kind the binder is called once, on the value at path "lineage" of the
\* declaration and with the runtime given (the singleton runtime when nil was
\* given), and what it answers is what is returned.
C4_BindKindLineage ==
    BindServed =>
        LET r == call.ret
            rt == IF call.rt = Nil THEN GrafanaThemaRuntime ELSE call.rt
            val == [path |-> "lineage", of |-> call.decl.V]
        IN  /\ call.decl.Meta.cat = "RawMeta" =>
                  r.lin.nil /\ r.err = Nil /\ r.binds = << >> /\ r.panic = Nil
            /\ call.decl.Meta.cat \in {"CoreStructuredMeta", "CustomStructuredMeta", "SlotImplMeta"} =>
                  /\ r.panic = Nil
                  /\ r.binds = <<[val |-> val, rt |-> rt]>>
                  /\ call.outcome = "lineage" =>
                        r.err = Nil /\ r.lin = [nil |-> FALSE, val |-> val, rt |-> rt]
                  /\ call.outcome = "error" =>
                        r.err = "ErrBindLineage" /\ r.lin.nil

\* A slot implementation bound with a nil runtime.
C4_Witness ==
    /\ BindServed /\ call.decl.Meta.cat = "SlotImplMeta" /\ call.rt = Nil
    /\ call.outcome = "lineage"
    /\ call.ret.binds # << >> /\ call.ret.lin.rt = GrafanaThemaRuntime

QuotaServed == pc = "done" /\ call.op = "readQuotaConfig"

GlobalTag == <<"api_key", "api_key", "global">>
OrgTag == <<"api_key", "api_key", "org">>

\* C6: with a "quota" section readQuotaConfig returns, with a nil error, the
\* map of exactly two limits: the global one is the number global_api_key
\* holds, and -1 when it holds none, the per-organisation one the number
\* org_api_key holds, and 10 when it holds none.  With a nil raw configuration
\* or without the section it returns the empty map and a nil error.
C6_QuotaLimits ==
    QuotaServed =>
        /\ call.ret.err = Nil
        /\ IF call.raw.nil \/ ~call.raw.hasQuota
           THEN DOMAIN call.ret.limits = {}
           ELSE /\ DOMAIN call.ret.limits = {GlobalTag, OrgTag}
                /\ call.ret.limits[GlobalTag] =
                      IF call.raw.global_api_key \in {"-1", "0", "5", "10"}
                      THEN ParseInt64(call.raw.global_api_key).n ELSE -1
                /\ call.ret.limits[OrgTag] =
                      IF call.raw.org_api_key \in {"-1", "0", "5", "10"}
                      THEN ParseInt64(call.raw.org_api_key).n ELSE 10

\* A section that sets the global limit to 5 and leaves org_api_key out.
C6_Witness ==
    /\ QuotaServed /\ ~call.raw.nil /\ call.raw.hasQuota
    /\ call.raw.global_api_key = "5" /\ call.raw.org_api_key = ""
    /\ call.ret.limits[GlobalTag] = 5 /\ call.ret.limits[OrgTag] = 10

UserPermissionsServed == pc = "done" /\ call.op = "getUserPermissions"

\* C7: when GetUserPermissions returns an error the response of
\* getUserPermissions has status 500, and it has status 200 only when the
\* service call succeeded.
C7_ErrorGives500 ==
    UserPermissionsServed =>
        /\ call.answer.err # Nil => call.ret.resp.status = 500
        /\ call.ret.resp.status = 200 => call.answer.err = Nil

UsersPermissionsServed == pc = "done" /\ call.op = "getSimpliedUsersPermissions"

\* C10: with an empty actionPrefix the response has status 400 and the service
\* is not called; with a non-empty one the service is called exactly once,
\* with that prefix, and the response is 500 when the service returns an error
\* and 200 with what the service returned otherwise.
C10_ValidateFirst ==
    UsersPermissionsServed =>
        IF call.actionPrefix = ""
        THEN call.ret.resp.status = 400 /\ call.ret.calls = << >>
        ELSE /\ Len(call.ret.calls) = 1
             /\ call.ret.calls[1].method = "GetSimplifiedUsersPermissions"
             /\ call.ret.calls[1].actionPrefix = call.actionPrefix
             /\ IF call.answer.err # Nil
                THEN call.ret.resp.status = 500
                ELSE /\ call.ret.resp.status = 200
                     /\ call.ret.resp.body = call.answer.permissions

\* A request without the action prefix, answered 400.
C10_Witness ==
    /\ UsersPermissionsServed /\ call.actionPrefix = ""
    /\ call.ret.resp.status = 400 /\ call.ret.calls = << >>

PrefixServed == pc = "done" /\ call.op = "PrefixWithGrafanaCUE"

\* The path under which the input file p is put.
Placed(p) == SelectSeq(call.prefix \o p, LAMBDA n : n # ".")

\* An embedded file is shadowed by an input file placed at its path, above its
\* path or below its path.
Shadowed(q) ==
    \E p \in DOMAIN call.inputfs :
        Placed(p) = q \/ IsProperPrefix(Placed(p), q) \/ IsProperPrefix(q, Placed(p))

\* C8: when reading the input does not fail, every file p of the input is read
\* from the result at prefix/p with its own bytes (also where an embedded file
\* has that path), and every embedded file that no input file shadows is read
\* with its own bytes; when the walk or a read fails, the result is the nil
\* file system and that error.
C8_MergedOverEmbedded ==
    PrefixServed =>
        IF call.fail = NoError
        THEN /\ call.ret.err = NoError
             /\ call.ret.fs # NilFS
             /\ \A p \in DOMAIN call.inputfs :
                   ReadFile(call.ret.fs, Placed(p)) = [ok |-> TRUE, data |-> <<"input", p>>]
             /\ \A q \in DOMAIN call.embedded :
                   ~Shadowed(q) =>
                       ReadFile(call.ret.fs, q) = [ok |-> TRUE, data |-> <<"embedded", q>>]
        ELSE call.ret.fs = NilFS /\ call.ret.err = call.fail

\* The input file b is put at a/b, where the embedded files have a file too,
\* next to the embedded file a/a.
C8_Witness ==
    /\ PrefixServed /\ call.fail = NoError
    /\ call.prefix = <<"a">> /\ <<"b">> \in DOMAIN call.inputfs
    /\ DOMAIN call.embedded = {<<"a", "a">>, <<"a", "b">>}
    /\ ReadFile(call.ret.fs, <<"a", "b">>).data = <<"input", <<"b">>>>
    /\ ReadFile(call.ret.fs, <<"a", "a">>).data = <<"embedded", <<"a", "a">>>>

ProvideServed == pc = "done" /\ call.op = "ProvideService"

DeclUsed == pc = "used" /\ call.op = "SomeDecl"

\* The predicates of the four categories, in the order of Categories, as the
\* methods answered them.
Answers == <<call.ret.IsRaw, call.ret.IsCoreStructured,
             call.ret.IsCustomStructured, call.ret.IsSlotImpl>>

\* C12: on a SomeDecl that LoadAnyKindFS returned, or that Some made of a
\* declaration LoadCoreKind returned, exactly one of IsRaw, IsCoreStructured,
\* IsCustomStructured and IsSlotImpl answers true; what Some made has the V of
\* the declaration and the category of its Meta, which is the category
\* LoadCoreKind was called for; and BindKindLineage does not panic.
C12_OneCategory ==
    DeclUsed =>
        /\ Cardinality({i \in 1..4 : Answers[i]}) = 1
        /\ \A i \in 1..4 : Answers[i] <=> call.load.ret.decl.Meta.cat = Categories[i]
        /\ call.some.V = call.load.ret.decl.V
        /\ call.load.op = "LoadCoreKind" =>
              /\ call.some.Meta.cat = call.load.T
              /\ call.some.Meta = call.load.ret.decl.Meta
        /\ call.ret.bind.panic = Nil

\* A core structured kind loaded by LoadCoreKind and converted by Some: only
\* IsCoreStructured answers true, and its lineage was bound.
C12_Witness ==
    /\ DeclUsed /\ call.load.op = "LoadCoreKind" /\ call.load.T = "CoreStructuredMeta"
    /\ Answers = <<FALSE, TRUE, FALSE, FALSE>>
    /\ call.outcome = "lineage"
    /\ call.ret.bind.binds # << >> /\ call.ret.bind.lin.val = LookupLineage(call.some.V)

====
